---- MODULE Spec2Model ----
(***************************************************************************)
(* Huffman coding of problem_3.py: huffman_encoding, huffman_decoding,     *)
(* map_frequency, build_tree and map_codes.                                *)
(*                                                                         *)
(* A Python str is a sequence of code points; a character is a str of      *)
(* length one.  HuffmanNode objects live in the store `nodes` and are      *)
(* referred to by their index; None is 0 for a reference and NoneChar for  *)
(* a node's char.  The PriorityQueue is the binary heap of heapq, with the *)
(* comparisons Python makes on the (freq, tag, node) tuples.               *)
(***************************************************************************)
EXTENDS Integers, Sequences, FiniteSets, TLC

\* ---------------------------------------------------------------- bounds
MaxLen == 4
MaxBits == 3

\* code points of ' ', '0', 'a', 'b'
Alphabet == {32, 48, 97, 98}

Zero == 48
One == 49

None == 0
NoneChar == <<0>>

VARIABLES data, pc, error, frequencies, nodes, queue, p3, tree,
          code_mappings, encoding, bits, i, node, decoded

vars == <<data, pc, error, frequencies, nodes, queue, p3, tree,
          code_mappings, encoding, bits, i, node, decoded>>

\* ---------------------------------------------------------------- values
RECURSIVE StringsUpTo(_, _)
StringsUpTo(S, n) ==
    IF n = 0 THEN {<<>>}
    ELSE LET shorter == StringsUpTo(S, n - 1)
         IN shorter \cup {Append(s, c) : s \in {t \in shorter : Len(t) = n - 1}, c \in S}

\* str(p3)
RECURSIVE str(_)
str(n) == IF n < 10 THEN <<Zero + n>> ELSE str(n \div 10) \o <<Zero + (n % 10)>>

\* s < t on two str values
RECURSIVE StrLt(_, _)
StrLt(s, t) ==
    IF t = <<>> THEN FALSE
    ELSE IF s = <<>> THEN TRUE
    ELSE IF Head(s) # Head(t) THEN Head(s) < Head(t)
    ELSE StrLt(Tail(s), Tail(t))

\* bool(data)
AlwaysTruthy(d) == TRUE

bool(d) == Len(d) > 0

\* HuffmanNode(freq, char)
HuffmanNode(freq, char) ==
    [freq |-> freq, char |-> char, left_child |-> None, right_child |-> None]

\* type(ref) is HuffmanNode
IsHuffmanNode(ref) == ref # None

\* ------------------------------------------------------- tuple comparison
\* x < y on two queue entries <<freq, tag, node>>: "lt", "ge", or "err" when
\* Python raises TypeError (None against str, or HuffmanNode against
\* HuffmanNode).
LtReversed(x, y) ==
    IF x[1] # y[1] THEN (IF x[1] > y[1] THEN "lt" ELSE "ge")
    ELSE IF x[2] # y[2]
         THEN IF x[2] = NoneChar \/ y[2] = NoneChar THEN "err"
              ELSE IF StrLt(x[2], y[2]) THEN "lt" ELSE "ge"
    ELSE IF x[3] # y[3] THEN "err"
    ELSE "ge"

Lt(x, y) ==
    IF x[1] # y[1] THEN (IF x[1] < y[1] THEN "lt" ELSE "ge")
    ELSE IF x[2] # y[2]
         THEN IF x[2] = NoneChar \/ y[2] = NoneChar THEN "err"
              ELSE IF StrLt(x[2], y[2]) THEN "lt" ELSE "ge"
    ELSE IF x[3] # y[3] THEN "err"
    ELSE "ge"

\* ------------------------------------------------------------------ heapq
\* Positions are heapq's 0-based positions; heap[pos + 1] is the element.
RECURSIVE SiftDown(_, _, _, _)
SiftDown(heap, startpos, pos, newitem) ==
    IF pos > startpos
    THEN LET parentpos == (pos - 1) \div 2
             parent == heap[parentpos + 1]
             c == Lt(newitem, parent)
         IN IF c = "err" THEN [err |-> TRUE, heap |-> heap]
            ELSE IF c = "lt"
                 THEN SiftDown([heap EXCEPT ![pos + 1] = parent], startpos, parentpos, newitem)
            ELSE [err |-> FALSE, heap |-> [heap EXCEPT ![pos + 1] = newitem]]
    ELSE [err |-> FALSE, heap |-> [heap EXCEPT ![pos + 1] = newitem]]

RECURSIVE SiftUp(_, _, _, _)
SiftUp(heap, startpos, pos, newitem) ==
    LET endpos == Len(heap)
        childpos == 2 * pos + 1
        rightpos == childpos + 1
    IN IF childpos < endpos
       THEN LET c == IF rightpos < endpos
                     THEN Lt(heap[childpos + 1], heap[rightpos + 1])
                     ELSE "lt"
                pick == IF c = "lt" THEN childpos ELSE rightpos
            IN IF c = "err" THEN [err |-> TRUE, heap |-> heap]
               ELSE SiftUp([heap EXCEPT ![pos + 1] = heap[pick + 1]], startpos, pick, newitem)
       ELSE SiftDown(heap, startpos, pos, newitem)

\* queue.put(item)
heappush(heap, item) == SiftDown(Append(heap, item), 0, Len(heap), item)

\* queue.get() on a non-empty queue
heappop(heap) ==
    LET lastelt == heap[Len(heap)]
        rest == SubSeq(heap, 1, Len(heap) - 1)
    IN IF rest # <<>>
       THEN LET r == SiftUp(rest, 0, 0, lastelt)
            IN [err |-> r.err, item |-> heap[1], heap |-> r.heap]
       ELSE [err |-> FALSE, item |-> lastelt, heap |-> rest]

\* ---------------------------------------------------------- map_frequency
\* The dict `frequencies` of map_frequency after its counting loop, as the
\* sequence of <<char, count>> items in insertion order.
RECURSIVE CountCharsLastOnly(_)
CountCharsLastOnly(d) ==
    IF d = <<>> THEN <<>>
    ELSE LET prev == CountCharsLastOnly(SubSeq(d, 1, Len(d) - 1))
             char == <<d[Len(d)]>>
             hit == {k \in {Len(prev)} \ {0} : prev[k][1] = char}
         IN IF hit # {}
            THEN [k \in 1..Len(prev) |->
                     IF k \in hit THEN <<prev[k][1], prev[k][2] + 1>> ELSE prev[k]]
            ELSE Append(prev, <<char, 1>>)

RECURSIVE CountChars(_)
CountChars(d) ==
    IF d = <<>> THEN <<>>
    ELSE LET prev == CountChars(SubSeq(d, 1, Len(d) - 1))
             char == <<d[Len(d)]>>
             hit == {k \in 1..Len(prev) : prev[k][1] = char}
         IN IF hit # {}
            THEN [k \in 1..Len(prev) |->
                     IF k \in hit THEN <<prev[k][1], prev[k][2] + 1>> ELSE prev[k]]
            ELSE Append(prev, <<char, 1>>)

\* The list of (freq, char, HuffmanNode) tuples and the nodes it creates.
map_frequency_no_dummy(d) ==
    LET dict == CountChars(d)
    IN IF ~bool(d) THEN [map |-> <<>>, nodes |-> <<>>]
       ELSE [map |-> [k \in 1..Len(dict) |-> <<dict[k][2], dict[k][1], k>>],
             nodes |-> [k \in 1..Len(dict) |-> HuffmanNode(dict[k][2], dict[k][1])]]

map_frequency(d) ==
    LET dict == CountChars(d)
        dummy == IF Len(dict) = 1 THEN 1 ELSE 0
    IN IF ~bool(d) THEN [map |-> <<>>, nodes |-> <<>>]
       ELSE [map |-> [k \in 1..(Len(dict) + dummy) |->
                         IF k <= dummy THEN <<0, NoneChar, k>>
                         ELSE <<dict[k - dummy][2], dict[k - dummy][1], k>>],
             nodes |-> [k \in 1..(Len(dict) + dummy) |->
                         IF k <= dummy THEN HuffmanNode(0, NoneChar)
                         ELSE HuffmanNode(dict[k - dummy][2], dict[k - dummy][1])]]

\* ------------------------------------------------------------- build_tree
\* p_freq = lt_freq + rt_freq
ParentFreqLeftOnly(lt_freq, rt_freq) == lt_freq

ParentFreq(lt_freq, rt_freq) == lt_freq + rt_freq

\* parent = HuffmanNode(p_freq, None) with both children assigned
ParentNodeLeftOnly(p_freq, lt_node, rt_node) ==
    [freq |-> p_freq, char |-> NoneChar, left_child |-> lt_node, right_child |-> None]

ParentNode(p_freq, lt_node, rt_node) ==
    [freq |-> p_freq, char |-> NoneChar, left_child |-> lt_node, right_child |-> rt_node]

\* One iteration of the while loop: two gets, the parent, one put.
MergeStep(q, store, counter) ==
    LET g1 == heappop(q)
        g2 == heappop(g1.heap)
        p_freq == ParentFreq(g1.item[1], g2.item[1])
        parent == ParentNode(p_freq, g1.item[3], g2.item[3])
        store2 == Append(store, parent)
        pt == heappush(g2.heap, <<p_freq, str(counter), Len(store2)>>)
    IN IF g1.err THEN [err |-> TRUE, heap |-> q, nodes |-> store]
       ELSE IF g2.err THEN [err |-> TRUE, heap |-> g1.heap, nodes |-> store]
       ELSE [err |-> pt.err, heap |-> pt.heap, nodes |-> store2]

\* -------------------------------------------------------------- map_codes
EmptyDict == [x \in {} |-> <<>>]

SetItem(m, key, value) ==
    [x \in DOMAIN m \cup {key} |-> IF x = key THEN value ELSE m[x]]

RECURSIVE map_codes_same_bit(_, _, _)
map_codes_same_bit(n, code, m) ==
    LET m1 == IF IsHuffmanNode(nodes[n].left_child)
              THEN map_codes_same_bit(nodes[n].left_child, Append(code, Zero), m)
              ELSE SetItem(m, nodes[n].char, code)
    IN IF IsHuffmanNode(nodes[n].right_child)
       THEN map_codes_same_bit(nodes[n].right_child, Append(code, Zero), m1)
       ELSE SetItem(m1, nodes[n].char, code)

RECURSIVE map_codes(_, _, _)
map_codes(n, code, m) ==
    LET m1 == IF IsHuffmanNode(nodes[n].left_child)
              THEN map_codes(nodes[n].left_child, Append(code, Zero), m)
              ELSE SetItem(m, nodes[n].char, code)
    IN IF IsHuffmanNode(nodes[n].right_child)
       THEN map_codes(nodes[n].right_child, Append(code, One), m1)
       ELSE SetItem(m1, nodes[n].char, code)

\* ------------------------------------------------- huffman_encoding step 4
RECURSIVE Encode(_, _)
Encode(d, m) ==
    IF d = <<>> THEN <<>>
    ELSE Encode(SubSeq(d, 1, Len(d) - 1), m) \o m[<<d[Len(d)]>>]

\* -------------------------------------------------------- huffman_decoding
\* The body of the for loop for one bit, with the cursor at n.
DecodeBitNoRewind(n, dec, bit) ==
    LET child == IF bit = Zero THEN nodes[n].left_child ELSE nodes[n].right_child
        cur == IF IsHuffmanNode(child) THEN child ELSE n
    IN IF nodes[cur].left_child = None /\ nodes[cur].right_child = None
       THEN IF nodes[cur].char = NoneChar
            THEN [err |-> TRUE, node |-> cur, decoded |-> dec]
            ELSE [err |-> FALSE, node |-> cur, decoded |-> dec \o nodes[cur].char]
       ELSE [err |-> FALSE, node |-> cur, decoded |-> dec]

DecodeBit(n, dec, bit) ==
    LET child == IF bit = Zero THEN nodes[n].left_child ELSE nodes[n].right_child
        cur == IF IsHuffmanNode(child) THEN child ELSE n
    IN IF nodes[cur].left_child = None /\ nodes[cur].right_child = None
       THEN IF nodes[cur].char = NoneChar
            THEN [err |-> TRUE, node |-> cur, decoded |-> dec]
            ELSE [err |-> FALSE, node |-> tree, decoded |-> dec \o nodes[cur].char]
       ELSE [err |-> FALSE, node |-> cur, decoded |-> dec]

\* ------------------------------------------------------------------- Init
Init ==
    /\ data \in StringsUpTo(Alphabet, MaxLen)
    /\ pc = "start"
    /\ error = "none"
    /\ frequencies = <<>>
    /\ nodes = <<>>
    /\ queue = <<>>
    /\ p3 = 0
    /\ tree = None
    /\ code_mappings = EmptyDict
    /\ encoding = <<>>
    /\ bits = <<>>
    /\ i = 0
    /\ node = None
    /\ decoded = <<>>

\* ---------------------------------------------------------------- actions
\* huffman_encoding, lines 11-12
EncodeEmpty ==
    /\ pc = "start"
    /\ ~bool(data)
    /\ pc' = "returned"
    /\ encoding' = <<>>
    /\ tree' = None
    /\ UNCHANGED <<data, error, frequencies, nodes, queue, p3, code_mappings,
                   bits, i, node, decoded>>

\* huffman_encoding step 1, and the entry of build_tree (lines 106-109)
MapFrequency ==
    /\ pc = "start"
    /\ bool(data)
    /\ LET r == map_frequency(data)
       IN /\ frequencies' = r.map
          /\ nodes' = r.nodes
          /\ pc' = IF Len(r.map) = 0 THEN "map_codes" ELSE "put"
    /\ queue' = <<>>
    /\ UNCHANGED <<data, error, p3, tree, code_mappings, encoding, bits, i,
                   node, decoded>>

\* build_tree, lines 110-113: one queue.put(f)
QueuePut ==
    /\ pc = "put"
    /\ Len(queue) < Len(frequencies)
    /\ LET r == heappush(queue, frequencies[Len(queue) + 1])
       IN IF r.err
          THEN /\ pc' = "raised"
               /\ error' = "compare"
               /\ UNCHANGED queue
          ELSE /\ queue' = r.heap
               /\ pc' = IF Len(r.heap) = Len(frequencies) THEN "loop" ELSE "put"
               /\ UNCHANGED error
    /\ p3' = 0
    /\ UNCHANGED <<data, frequencies, nodes, tree, code_mappings, encoding,
                   bits, i, node, decoded>>

\* build_tree, lines 114-127: one iteration of the while loop
Merge ==
    /\ pc = "loop"
    /\ Len(queue) > 1
    /\ LET r == MergeStep(queue, nodes, p3)
       IN IF r.err
          THEN /\ pc' = "raised"
               /\ error' = "compare"
               /\ UNCHANGED <<queue, nodes, p3>>
          ELSE /\ queue' = r.heap
               /\ nodes' = r.nodes
               /\ p3' = p3 + 1
               /\ UNCHANGED <<pc, error>>
    /\ UNCHANGED <<data, frequencies, tree, code_mappings, encoding, bits, i,
                   node, decoded>>

\* build_tree, lines 129-130
BuildTreeReturn ==
    /\ pc = "loop"
    /\ Len(queue) <= 1
    /\ LET root == heappop(queue)
       IN /\ tree' = root.item[3]
          /\ queue' = root.heap
    /\ pc' = "map_codes"
    /\ UNCHANGED <<data, error, frequencies, nodes, p3, code_mappings,
                   encoding, bits, i, node, decoded>>

\* huffman_encoding step 3
MapCodes ==
    /\ pc = "map_codes"
    /\ IF tree = None
       THEN /\ pc' = "raised"
            /\ error' = "attribute"
            /\ UNCHANGED code_mappings
       ELSE /\ code_mappings' = map_codes(tree, <<>>, EmptyDict)
            /\ pc' = "encode"
            /\ UNCHANGED error
    /\ UNCHANGED <<data, frequencies, nodes, queue, p3, tree, encoding, bits,
                   i, node, decoded>>

\* huffman_encoding step 4
EncodeData ==
    /\ pc = "encode"
    /\ IF \E k \in 1..Len(data) : <<data[k]>> \notin DOMAIN code_mappings
       THEN /\ pc' = "raised"
            /\ error' = "key"
            /\ UNCHANGED encoding
       ELSE /\ encoding' = Encode(data, code_mappings)
            /\ pc' = "returned"
            /\ UNCHANGED error
    /\ UNCHANGED <<data, frequencies, nodes, queue, p3, tree, code_mappings,
                   bits, i, node, decoded>>

\* huffman_decoding, lines 38-39, called with the returned tree and either
\* the returned encoding or any other bitstring
DecodeStart ==
    /\ pc = "returned"
    /\ \E b \in {encoding} \cup StringsUpTo({Zero, One}, MaxBits) : bits' = b
    /\ decoded' = <<>>
    /\ node' = tree
    /\ i' = 0
    /\ pc' = "decoding"
    /\ UNCHANGED <<data, error, frequencies, nodes, queue, p3, tree,
                   code_mappings, encoding>>

\* huffman_decoding, lines 41-56: one iteration of the for loop
DecodeStep ==
    /\ pc = "decoding"
    /\ i < Len(bits)
    /\ IF node = None
       THEN /\ pc' = "raised"
            /\ error' = "attribute"
            /\ UNCHANGED <<node, decoded, i>>
       ELSE LET r == DecodeBit(node, decoded, bits[i + 1])
            IN /\ node' = r.node
               /\ decoded' = r.decoded
               /\ i' = i + 1
               /\ pc' = IF r.err THEN "raised" ELSE "decoding"
               /\ error' = IF r.err THEN "concat" ELSE error
    /\ UNCHANGED <<data, frequencies, nodes, queue, p3, tree, code_mappings,
                   encoding, bits>>

\* huffman_decoding, line 58
DecodeReturn ==
    /\ pc = "decoding"
    /\ i = Len(bits)
    /\ pc' = "done"
    /\ UNCHANGED <<data, error, frequencies, nodes, queue, p3, tree,
                   code_mappings, encoding, bits, i, node, decoded>>

Next ==
    \/ EncodeEmpty
    \/ MapFrequency
    \/ QueuePut
    \/ Merge
    \/ BuildTreeReturn
    \/ MapCodes
    \/ EncodeData
    \/ DecodeStart
    \/ DecodeStep
    \/ DecodeReturn

Spec == Init /\ [][Next]_vars

\* ================================================================ helpers
IsLeaf(n) == nodes[n].left_child = None /\ nodes[n].right_child = None

RECURSIVE Reach(_)
Reach(n) ==
    {n} \cup (IF nodes[n].left_child # None THEN Reach(nodes[n].left_child) ELSE {})
        \cup (IF nodes[n].right_child # None THEN Reach(nodes[n].right_child) ELSE {})

Leaves(n) == {m \in Reach(n) : IsLeaf(m)}

Distinct == {data[k] : k \in 1..Len(data)}

Occurrences(c) == Cardinality({k \in 1..Len(data) : data[k] = c})

IsPrefix(s, t) == Len(s) <= Len(t) /\ SubSeq(t, 1, Len(s)) = s

\* sum over the leaves under n of freq times depth
RECURSIVE WeightedDepth(_, _)
WeightedDepth(n, depth) ==
    IF IsLeaf(n) THEN nodes[n].freq * depth
    ELSE (IF nodes[n].left_child # None
          THEN WeightedDepth(nodes[n].left_child, depth + 1) ELSE 0)
       + (IF nodes[n].right_child # None
          THEN WeightedDepth(nodes[n].right_child, depth + 1) ELSE 0)

RECURSIVE SumWeights(_)
SumWeights(S) ==
    IF S = {} THEN 0
    ELSE LET k == CHOOSE x \in S : TRUE
         IN frequencies[k][1] + SumWeights(S \ {k})

\* least weighted leaf-depth sum over every binary tree whose leaves are the
\* entries S of `frequencies`, by trying every split of S at the root
RECURSIVE OptCost(_)
OptCost(S) ==
    IF Cardinality(S) <= 1 THEN 0
    ELSE LET splits == {A \in SUBSET S : A # {} /\ A # S}
             costs == {OptCost(A) + OptCost(S \ A) + SumWeights(S) : A \in splits}
         IN CHOOSE c \in costs : \A c2 \in costs : c <= c2

EncodePhase == pc \in {"start", "put", "loop", "map_codes", "encode"}
TreeBuilt == tree # None

\* ================================================================= claims
\* C1: for every non-empty input, huffman_encoding returns (it does not
\* raise) and huffman_decoding of the returned bits with the returned tree
\* gives back exactly the input.
C1_RoundTrip ==
    /\ error \notin {"compare", "key"}
    /\ (pc = "done" /\ bits = encoding => decoded = data)

\* C2: huffman_encoding of an empty input returns ('', None) at once: no
\* frequency entry, queue entry, tree node or code table is ever built.
C2_EmptyInput ==
    (Len(data) = 0 /\ pc # "start") =>
        /\ ~EncodePhase
        /\ encoding = <<>>
        /\ tree = None
        /\ frequencies = <<>>
        /\ nodes = <<>>
        /\ queue = <<>>
        /\ code_mappings = EmptyDict

C2_Witness == Len(data) = 0 /\ pc = "returned"

\* C3: an input of n >= 1 copies of one symbol encodes without raising to n
\* copies of one bit, and decoding those bits with the returned tree gives
\* back the input.
C3_SingleSymbol ==
    Cardinality(Distinct) = 1 =>
        /\ (bits = encoding => error = "none")
        /\ (pc \in {"returned", "decoding", "done"} =>
               /\ Len(encoding) = Len(data)
               /\ \A k \in 1..Len(encoding) :
                      encoding[k] \in {Zero, One} /\ encoding[k] = encoding[1])
        /\ (pc = "done" /\ bits = encoding => decoded = data)

C3_Witness ==
    /\ Cardinality(Distinct) = 1
    /\ Len(data) >= 3
    /\ pc = "done"
    /\ bits = encoding
    /\ decoded = data

\* C4: in the code table map_codes derives from the built tree, every code
\* is non-empty and no entry's code is a prefix of, or equal to, another's.
C4_PrefixFree ==
    (pc \in {"encode", "returned"} /\ TreeBuilt) =>
        \A c1 \in DOMAIN code_mappings :
            /\ Len(code_mappings[c1]) > 0
            /\ \A c2 \in DOMAIN code_mappings \ {c1} :
                   ~IsPrefix(code_mappings[c1], code_mappings[c2])

C4_Witness ==
    /\ pc = "encode"
    /\ Cardinality(DOMAIN code_mappings) = 3
    /\ \E c \in DOMAIN code_mappings : Len(code_mappings[c]) = 1
    /\ \E c \in DOMAIN code_mappings : Len(code_mappings[c]) = 2

\* C5: in the returned tree every internal node's freq is the sum of its
\* children's, every leaf's freq is the number of occurrences of its symbol
\* (0 for the dummy), and the root's freq is the length of the input.
C5_WeightInvariant ==
    TreeBuilt =>
        /\ \A n \in Reach(tree) :
               IF IsLeaf(n)
               THEN nodes[n].freq = IF nodes[n].char = NoneChar THEN 0
                                    ELSE Occurrences(nodes[n].char[1])
               ELSE /\ nodes[n].left_child # None
                    /\ nodes[n].right_child # None
                    /\ nodes[n].freq = nodes[nodes[n].left_child].freq
                                       + nodes[nodes[n].right_child].freq
        /\ nodes[tree].freq = Len(data)

C5_Witness ==
    /\ TreeBuilt
    /\ pc = "map_codes"
    /\ Cardinality(Leaves(tree)) >= 3
    /\ \E n \in Leaves(tree) : nodes[n].freq >= 2

\* C6: the returned tree has one leaf per distinct symbol, plus one dummy
\* leaf (char None, freq 0) exactly when there is one distinct symbol; each
\* distinct symbol labels exactly one leaf; the code table has one entry per
\* leaf.
C6_LeafCount ==
    TreeBuilt =>
        LET d == Cardinality(Distinct)
            dummies == {n \in Leaves(tree) : nodes[n].char = NoneChar}
        IN /\ Cardinality(Leaves(tree)) = IF d = 1 THEN 2 ELSE d
           /\ Cardinality(dummies) = IF d = 1 THEN 1 ELSE 0
           /\ \A n \in dummies : nodes[n].freq = 0
           /\ \A c \in Distinct :
                  Cardinality({n \in Leaves(tree) : nodes[n].char = <<c>>}) = 1
           /\ (pc \in {"encode", "returned"} =>
                  Cardinality(DOMAIN code_mappings) = Cardinality(Leaves(tree)))

C6_Witness ==
    /\ TreeBuilt
    /\ pc = "encode"
    /\ Cardinality(Distinct) = 2
    /\ Len(data) = 4
    /\ data[1] = data[3]

\* C7: no two entries that are in the queue together share both weight and
\* tag, and no comparison of two entries raises.
C7_TotalOrder ==
    /\ error # "compare"
    /\ \A a, b \in 1..Len(queue) :
           a # b => ~(queue[a][1] = queue[b][1] /\ queue[a][2] = queue[b][2])

\* C8: the returned tree's weighted leaf-depth sum is the least possible for
\* the weights of the frequency entries, and the encoded bitstring has that
\* length.
C8_Optimal ==
    (pc \in {"map_codes", "returned"} /\ TreeBuilt) =>
        /\ WeightedDepth(tree, 0) = OptCost(1..Len(frequencies))
        /\ (pc = "returned" => Len(encoding) = OptCost(1..Len(frequencies)))

C8_Witness ==
    /\ pc = "returned"
    /\ TreeBuilt
    /\ Cardinality(Distinct) = 3
    /\ Len(data) = 4
    /\ Len(encoding) = 6

\* C9: every HuffmanNode ever created has both children or none, a node
\* with children has no symbol, and the returned root has children.
C9_AllOrNothing ==
    /\ \A n \in 1..Len(nodes) :
           /\ (nodes[n].left_child = None) <=> (nodes[n].right_child = None)
           /\ ~IsLeaf(n) => nodes[n].char = NoneChar
    /\ TreeBuilt => ~IsLeaf(tree) /\ nodes[tree].left_child # None

C9_Witness ==
    /\ pc = "loop"
    /\ p3 = 2
    /\ Len(queue) = 2
    /\ Len(nodes) = 6

\* C10: while huffman_decoding runs on a returned tree, the cursor is an
\* internal node at the start of every iteration; every bit moves it to the
\* child the bit names; a symbol is appended only on a step that arrived at
\* a leaf; and after the matched bitstring the cursor is back at the root.
C10_CursorInternal ==
    /\ (pc = "decoding" /\ TreeBuilt) =>
           /\ nodes[node].left_child # None
           /\ nodes[node].right_child # None
    /\ (pc = "done" /\ bits = encoding) => node = tree

C10_StepMoves ==
    (pc = "decoding" /\ TreeBuilt /\ i' = i + 1) =>
        LET child == IF bits[i + 1] = Zero THEN nodes[node].left_child
                     ELSE nodes[node].right_child
        IN /\ child # None
           /\ IF IsLeaf(child)
              THEN \/ pc' = "raised" /\ nodes[child].char = NoneChar /\ decoded' = decoded
                   \/ /\ pc' = "decoding"
                      /\ decoded' = decoded \o nodes[child].char
                      /\ node' = tree
              ELSE /\ decoded' = decoded
                   /\ node' = child
                   /\ pc' = "decoding"

C10_CursorAdvances == []C10_CursorInternal /\ [][C10_StepMoves]_vars

C10_Witness ==
    /\ pc = "decoding"
    /\ TreeBuilt
    /\ bits # encoding
    /\ i = 3
    /\ Len(decoded) = 1
    /\ node # tree

====
